---- MODULE Spec2Model ----
(***************************************************************************)
(* State-machine model of yt_dlp/extractor/microsoftstream.py:             *)
(* MicrosoftStreamIE._real_extract, extract_all_subtitles and              *)
(* _get_all_subtitles.  One extraction call is a sequential run over the   *)
(* steps of _real_extract; the responses of the site (page, video API,     *)
(* manifests, text tracks) and the caller's options are the inputs, drawn  *)
(* in Init and held in env.                                                *)
(*                                                                         *)
(* Python values: a dict is a function whose DOMAIN is its key set, a list *)
(* is a sequence, an optional value (x or None) is <<x>> or <<>>.          *)
(***************************************************************************)
EXTENDS Integers, Sequences, FiniteSets, TLC

\* ------------------------------------------------------------ Python values

None == <<>>
Some(v) == <<v>>

\* {} : the empty dict
EmptyDict == [k \in {} |-> k]

\* d.get(k): the value under k as an optional
Get(d, k) == IF k \in DOMAIN d THEN Some(d[k]) ELSE None

\* the dict d without the keys outside keep
Restrict(d, keep) == [k \in (DOMAIN d) \cap keep |-> d[k]]

\* try_get(d, lambda x: x[k1][k2]): None when a link of the chain is missing
TryGet2(d, k1, k2) ==
    IF k1 \in DOMAIN d /\ k2 \in DOMAIN d[k1] THEN Some(d[k1][k2]) ELSE None

\* try_get(d, (lambda x: x[k1][a], lambda x: x[k1][b])): the first getter that yields a value
TryGetFirst(d, k1, a, b) ==
    IF TryGet2(d, k1, a) # None THEN TryGet2(d, k1, a) ELSE TryGet2(d, k1, b)

\* truthiness of an optional string: None and '' are falsy
Truthy(opt) == opt # None /\ opt # Some("")

RECURSIVE Concat(_)
Concat(seqs) == IF seqs = <<>> THEN <<>> ELSE Head(seqs) \o Concat(Tail(seqs))

\* ------------------------------------------------------------ base64.b64decode

\* the base64 alphabet, value v at position v + 1
B64Alphabet ==
    << "A","B","C","D","E","F","G","H","I","J","K","L","M","N","O","P",
       "Q","R","S","T","U","V","W","X","Y","Z","a","b","c","d","e","f",
       "g","h","i","j","k","l","m","n","o","p","q","r","s","t","u","v",
       "w","x","y","z","0","1","2","3","4","5","6","7","8","9","+","/" >>

\* a character outside ASCII, which b64decode refuses in a str argument
NonAscii == "U+00E9"

IsB64Char(c) == \E i \in 1..Len(B64Alphabet) : B64Alphabet[i] = c
B64Value(c) == (CHOOSE i \in 1..Len(B64Alphabet) : B64Alphabet[i] = c) - 1

\* binascii.a2b_base64 in its default (non strict) mode, from position i of s
\* with the decoder state (quad_pos, leftchar, pads) and the bytes put out so far
RECURSIVE A2bScan(_, _, _, _, _, _)
A2bScan(s, i, quad_pos, leftchar, pads, out) ==
    IF i > Len(s)
    THEN [ok |-> quad_pos = 0, bytes |-> out]
    ELSE IF s[i] = "="
    THEN IF quad_pos >= 2 /\ quad_pos + pads + 1 >= 4
         THEN [ok |-> TRUE, bytes |-> out]
         ELSE A2bScan(s, i + 1, quad_pos, leftchar,
                      IF quad_pos >= 2 THEN pads + 1 ELSE pads, out)
    ELSE IF ~IsB64Char(s[i])
    THEN A2bScan(s, i + 1, quad_pos, leftchar, pads, out)
    ELSE LET v == B64Value(s[i]) IN
         CASE quad_pos = 0 -> A2bScan(s, i + 1, 1, v, 0, out)
           [] quad_pos = 1 ->
                A2bScan(s, i + 1, 2, v % 16, 0, Append(out, leftchar * 4 + v \div 16))
           [] quad_pos = 2 ->
                A2bScan(s, i + 1, 3, v % 4, 0, Append(out, leftchar * 16 + v \div 4))
           [] OTHER ->
                A2bScan(s, i + 1, 0, 0, 0, Append(out, leftchar * 64 + v))

\* b64decode(s) of a str: ValueError on a non-ASCII character, binascii.Error
\* on a data length the padding does not complete, else the bytes
B64Decode(s) ==
    IF \E i \in 1..Len(s) : s[i] = NonAscii
    THEN [ok |-> FALSE, error |-> "ValueError", bytes |-> <<>>]
    ELSE LET r == A2bScan(s, 1, 0, 0, 0, <<>>) IN
         IF r.ok THEN [ok |-> TRUE, error |-> "none", bytes |-> r.bytes]
         ELSE [ok |-> FALSE, error |-> "binascii.Error", bytes |-> <<>>]

\* '=' * (-len(name) % 4)
Padding(name) == [i \in 1..((4 - (Len(name) % 4)) % 4) |-> "="]

\* ------------------------------------------------------------ str(bytes)

HexDigit(n) == IF n < 10 THEN 48 + n ELSE 87 + n

\* the characters (as code points) repr() writes for one byte inside quote q
ReprByte(b, q) ==
    CASE b = 92 -> <<92, 92>>
      [] b = 9 -> <<92, 116>>
      [] b = 10 -> <<92, 110>>
      [] b = 13 -> <<92, 114>>
      [] b = q -> <<92, q>>
      [] b < 32 \/ b >= 127 -> <<92, 120, HexDigit(b \div 16), HexDigit(b % 16)>>
      [] OTHER -> <<b>>

\* str(bs) of a bytes object is its repr: b'...', in double quotes when the
\* bytes hold a single quote and no double quote
StrOfBytes(bs) ==
    LET has(c) == \E i \in 1..Len(bs) : bs[i] = c
        q == IF has(39) /\ ~has(34) THEN 34 ELSE 39
    IN <<98, q>> \o Concat([i \in 1..Len(bs) |-> ReprByte(bs[i], q)]) \o <<q>>

\* ------------------------------------------------------------ parse_resolution

IsDigit(c) == c >= 48 /\ c <= 57
IsAlnum(c) == IsDigit(c) \/ (c >= 65 /\ c <= 90) \/ (c >= 97 /\ c <= 122)
IsSpace(c) == c \in {32, 9, 10, 11, 12, 13}
\* [xX,] (the sign U+00D7 cannot occur in the ASCII text of a repr)
IsResSep(c) == c \in {120, 88, 44}

\* the end of the run of digits that starts at i (i - 1 when the run is empty)
RECURSIVE DigitRunEnd(_, _)
DigitRunEnd(s, i) == IF i <= Len(s) /\ IsDigit(s[i]) THEN DigitRunEnd(s, i + 1) ELSE i - 1

\* the end of the run of white space that starts at i (i - 1 when the run is empty)
RECURSIVE SpaceRunEnd(_, _)
SpaceRunEnd(s, i) == IF i <= Len(s) /\ IsSpace(s[i]) THEN SpaceRunEnd(s, i + 1) ELSE i - 1

RECURSIVE IntOf(_, _, _)
IntOf(s, a, b) == IF a > b THEN 0 ELSE IntOf(s, a, b - 1) * 10 + (s[b] - 48)

\* a match of (?<![a-zA-Z0-9])(\d+)\s*[xX,]\s*(\d+)(?![a-zA-Z0-9]) starting at p
ResMatchAt(s, p) ==
    LET wEnd == DigitRunEnd(s, p)
        sep == SpaceRunEnd(s, wEnd + 1) + 1
        hStart == SpaceRunEnd(s, sep + 1) + 1
        hEnd == DigitRunEnd(s, hStart)
    IN IF /\ (p = 1 \/ ~IsAlnum(s[p - 1]))
          /\ wEnd >= p
          /\ sep <= Len(s) /\ IsResSep(s[sep])
          /\ hEnd >= hStart
          /\ (hEnd = Len(s) \/ ~IsAlnum(s[hEnd + 1]))
       THEN Some([width |-> IntOf(s, p, wEnd), height |-> IntOf(s, hStart, hEnd)])
       ELSE None

\* parse_resolution(s): the leftmost width x height in s as a dict, else {}
ParseResolution(s) ==
    LET hits == {p \in 1..Len(s) : ResMatchAt(s, p) # None} IN
    IF hits = {} THEN EmptyDict
    ELSE ResMatchAt(s, CHOOSE p \in hits : \A r \in hits : p <= r)[1]

\* ------------------------------------------------------------ utils

\* url_basename(url): the last segment of the path once the slashes at its
\* two ends are stripped; path is the sequence of the segments between slashes
RECURSIVE UrlBasename(_)
UrlBasename(path) ==
    IF path = <<>> THEN <<>>
    ELSE IF path[Len(path)] # <<>> THEN path[Len(path)]
    ELSE UrlBasename(SubSeq(path, 1, Len(path) - 1))

\* merge_dicts(a, b): the earlier dict takes precedence, except that an empty
\* string gives way to a later string
MergeDicts(a, b) ==
    [k \in (DOMAIN a) \cup (DOMAIN b) |->
        IF k \notin DOMAIN a THEN b[k]
        ELSE IF k \in DOMAIN b /\ a[k] = "" THEN b[k]
        ELSE a[k]]

\* parse_iso8601(created): seconds since the epoch, None for None or text that is no date
ParseIso8601(opt) ==
    IF opt = None THEN None
    ELSE CASE opt[1] = "1970-01-01T00:01:00Z" -> Some(60)
           [] opt[1] = "2021-11-01T00:00:00Z" -> Some(1635724800)
           [] OTHER -> None

\* parse_duration(media.duration): seconds, None for None or text that is no duration
ParseDuration(opt) ==
    IF opt = None THEN None
    ELSE CASE opt[1] = "PT1M" -> Some(60)
           [] opt[1] = "PT1H1S" -> Some(3601)
           [] OTHER -> None

\* the position at which format f goes into the sorted sequence fs
RECURSIVE InsertSorted(_, _)
InsertSorted(fs, f) ==
    IF fs = <<>> THEN <<f>>
    ELSE IF f.quality < Head(fs).quality THEN <<f>> \o fs
    ELSE <<Head(fs)>> \o InsertSorted(Tail(fs), f)

\* _sort_formats(formats): worst to best, formats of equal rank keeping their order
RECURSIVE SortFormats(_)
SortFormats(fs) ==
    IF fs = <<>> THEN <<>>
    ELSE InsertSorted(SortFormats(SubSeq(fs, 1, Len(fs) - 1)), fs[Len(fs)])

\* ------------------------------------------------------------ bounds

\* longest final path segment of a thumbnail URL that is enumerated
MaxNameLen == 3
\* longest playbackUrls list that is enumerated
MaxPlaylists == 2
\* longest text-track list that is enumerated
MaxTracks == 2

\* the sequences over S of length 0..n
SeqsUpTo(S, n) == UNION {[1..k -> S] : k \in 0..n}

\* ------------------------------------------------------------ inputs

\* the identifier _match_id takes from the URL, and one the API may answer with
UrlId == "6e51d928-4f46-4f1c-b141-369925e37b62"
ApiId == "b60f5987-aabd-4e1c-a42f-c559d138f2ca"

ThumbnailIds == <<"extraSmall", "small", "medium", "large">>

MimeHls == "application/vnd.apple.mpegurl"
MimeDash == "application/dash+xml"
MimeIsm == "application/vnd.ms-sstr+xml"
MimeOther == "video/mp4"

ParamNames == {"writesubtitles", "writeautomaticsub", "listsubtitles"}

\* the caller's options: each of the three either unset or a boolean
AllParams == UNION {[K -> BOOLEAN] : K \in SUBSET ParamNames}

VideoKeys == {"name", "description", "creator", "posterImage", "playbackUrls",
              "media", "created", "metrics", "id", "language"}

\* base64 of "1x2": a final segment that decodes to a resolution
GoodName == <<"M", "X", "g", "y">>
\* one data character: no padding completes it
BadName == <<"M">>

\* the url of a thumbnail: its path segments, the directory "t" and the name
ThumbUrl(name) == << <<"t">>, name >>

BaseVideo ==
    [name |-> "A talk", description |-> "About it",
     creator |-> [name |-> "Ann", mail |-> "ann@example.com", id |-> "c-1"],
     posterImage |-> [small |-> [url |-> ThumbUrl(GoodName)]],
     playbackUrls |-> <<[mimeType |-> MimeHls, playbackUrl |-> "m1"]>>,
     media |-> [duration |-> "PT1M"],
     created |-> "2021-11-01T00:00:00Z",
     metrics |-> [views |-> 3, likes |-> 2, comments |-> 1],
     id |-> ApiId, language |-> "en"]

BasePage == [ok |-> TRUE, marker |-> TRUE, token |-> Some("tok"), api |-> Some("https://api")]

\* what the manifest behind each playback URL resolves to
ManifestUrls == {"m1", "m2"}
ManifestFormats ==
    [u \in ManifestUrls |->
        IF u = "m1"
        THEN <<[format_id |-> "a", quality |-> 2],
               [format_id |-> "b", quality |-> 1, language |-> "de"]>>
        ELSE <<[format_id |-> "c", quality |-> 3, language |-> ""]>>]
BaseManifests == [u \in ManifestUrls |-> [ok |-> TRUE, formats |-> ManifestFormats[u]]]

BaseTracks ==
    [ok |-> TRUE,
     json |-> [value |-> <<[language |-> "en", url |-> "u1", autoGenerated |-> FALSE]>>]]

BaseEnv ==
    [params |-> [writesubtitles |-> TRUE], page |-> BasePage,
     video |-> [ok |-> TRUE, json |-> BaseVideo],
     manifests |-> BaseManifests, tracks |-> BaseTracks]

WithVideo(e, key, val) == [e EXCEPT !.video.json = (key :> val) @@ @]

\* the page: downloaded or not, with or without the title marker and the two credentials
PageScenarios ==
    {[BaseEnv EXCEPT !.page = [ok |-> o, marker |-> m, token |-> t, api |-> a],
                     !.video.ok = v, !.params = p] :
        o \in BOOLEAN, m \in BOOLEAN, t \in {None, Some("tok")},
        a \in {None, Some("https://api")}, v \in BOOLEAN,
        p \in {EmptyDict, [writesubtitles |-> TRUE]}}

\* the video record with any set of its fields omitted
FieldScenarios ==
    {[BaseEnv EXCEPT !.video.json = Restrict(BaseVideo, K), !.params = p] :
        K \in SUBSET VideoKeys, p \in {EmptyDict, [listsubtitles |-> TRUE]}}

\* the nested fields: creator, media and metrics with any of their keys omitted,
\* created and media.duration as text that does not parse
NestedScenarios ==
    {[BaseEnv EXCEPT !.video.json =
          [BaseVideo EXCEPT !.creator = Restrict(@, C), !.metrics = Restrict(@, M),
                            !.media = Restrict([duration |-> d], D), !.created = c]] :
        C \in SUBSET {"name", "mail", "id"}, M \in SUBSET {"views", "likes", "comments"},
        D \in SUBSET {"duration"}, d \in {"PT1M", "soon"},
        c \in {"1970-01-01T00:01:00Z", "yesterday"}}

\* the API's id and language, under every setting of the options and both
\* outcomes of the text-track download
IdScenarios ==
    {[(IF i = None THEN [BaseEnv EXCEPT !.video.json = Restrict(@, VideoKeys \ {"id"})]
       ELSE WithVideo(BaseEnv, "id", i[1]))
        EXCEPT !.params = p, !.tracks.ok = t] :
        i \in {None, Some(""), Some(ApiId), Some(UrlId)}, p \in AllParams, t \in BOOLEAN}

\* what posterImage holds under one size label: a dict without url, or a url
\* whose final segment decodes or does not; any of the labels may be missing
LabelDicts == {EmptyDict, [url |-> ThumbUrl(GoodName)], [url |-> ThumbUrl(BadName)]}
PosterImages ==
    UNION {[L -> LabelDicts] : L \in SUBSET {ThumbnailIds[j] : j \in 1..Len(ThumbnailIds)}}

\* the characters a final segment is drawn from: base64 data, a character
\* outside the alphabet, padding, a character outside ASCII
NameChars == {"M", "X", "g", "y", ".", "=", NonAscii}
ThumbPaths ==
    {ThumbUrl(n) : n \in SeqsUpTo(NameChars, MaxNameLen)}
        \cup {<<>>, <<GoodName, <<>>>>, <<BadName, <<>>, <<>>>>, <<<<>>, <<>>>>}

ThumbScenarios ==
    {WithVideo(BaseEnv, "posterImage", pi) : pi \in PosterImages}
        \cup {WithVideo(BaseEnv, "posterImage", [large |-> [url |-> path]]) :
                path \in ThumbPaths}

\* the entries of playbackUrls: the four mime types on either manifest, an
\* entry without mimeType and one without playbackUrl
PlaylistEntries ==
    {[mimeType |-> m, playbackUrl |-> u] :
        m \in {MimeHls, MimeDash, MimeIsm, MimeOther}, u \in ManifestUrls}
        \cup {[playbackUrl |-> "m1"], [mimeType |-> MimeDash]}

\* the video with its language set to the optional lang
WithLanguage(e, lang) ==
    IF lang = None THEN [e EXCEPT !.video.json = Restrict(@, VideoKeys \ {"language"})]
    ELSE WithVideo(e, "language", lang[1])

\* every playbackUrls list up to the bound with each manifest resolving or
\* failing, and every language of the video over the lists of at most one entry
FormatScenarios ==
    {[BaseEnv EXCEPT !.video.json.playbackUrls = pl,
                     !.manifests = [u \in ManifestUrls |->
                                      [ok |-> ok[u], formats |-> ManifestFormats[u]]]] :
        pl \in SeqsUpTo(PlaylistEntries, MaxPlaylists), ok \in [ManifestUrls -> BOOLEAN]}
    \cup
    {[WithLanguage(BaseEnv, l)
        EXCEPT !.video.json.playbackUrls = pl,
               !.manifests = [u \in ManifestUrls |->
                                [ok |-> ok[u], formats |-> ManifestFormats[u]]]] :
        l \in {None, Some(""), Some("en"), Some("de")},
        pl \in SeqsUpTo(PlaylistEntries, 1), ok \in [ManifestUrls -> BOOLEAN]}

\* the text tracks: every track with a language and a url, and the tracks that
\* lack one of the two or carry an empty language
KeptTracks ==
    {Restrict([language |-> l, url |-> u, autoGenerated |-> a], K) :
        l \in {"en", "fr"}, u \in {"u1", "u2"}, a \in BOOLEAN,
        K \in {{"language", "url"}, {"language", "url", "autoGenerated"}}}
SkippedTracks ==
    {Restrict([language |-> "en", url |-> "u1", autoGenerated |-> TRUE], K) :
        K \in SUBSET {"language", "url", "autoGenerated"} \ 
              {{"language", "url"}, {"language", "url", "autoGenerated"}}}
        \cup {[language |-> "", url |-> "u2"]}
TrackKinds == KeptTracks \cup SkippedTracks

TrackScenarios ==
    {[BaseEnv EXCEPT !.tracks = [ok |-> TRUE, json |-> [value |-> ts]]] :
        ts \in SeqsUpTo(TrackKinds, MaxTracks)}
        \cup {[BaseEnv EXCEPT !.tracks = [ok |-> o, json |-> EmptyDict]] : o \in BOOLEAN}

Scenarios ==
    PageScenarios \cup FieldScenarios \cup NestedScenarios \cup IdScenarios
        \cup ThumbScenarios \cup FormatScenarios \cup TrackScenarios

\* ------------------------------------------------------------ state

VARIABLES
    env,            \* the inputs of the call: options, page, API and manifest responses
    pc,             \* the step of _real_extract the call is at, "done" or "failed"
    error,          \* the exception that ended the call, "none" before
    raised_at,      \* the step that raised it, "none" before
    requests,       \* the network requests issued so far, in order
    access_token,   \* _real_extract's locals
    api_url,
    video_data,
    video_id,
    language,
    thumbnails,
    formats,
    playlist_index, \* the entry of playbackUrls the format loop is at
    info            \* the returned record

vars == <<env, pc, error, raised_at, requests, access_token, api_url, video_data, video_id,
          language, thumbnails, formats, playlist_index, info>>

Request(kind, target, id) == [kind |-> kind, target |-> target, id |-> id]

Init ==
    /\ env \in Scenarios
    /\ pc = "webpage"
    /\ error = "none"
    /\ raised_at = "none"
    /\ requests = <<>>
    /\ access_token = None
    /\ api_url = None
    /\ video_data = EmptyDict
    /\ video_id = UrlId
    /\ language = None
    /\ thumbnails = <<>>
    /\ formats = <<>>
    /\ playlist_index = 1
    /\ info = EmptyDict

\* raise exc out of _real_extract
Raise(exc) == pc' = "failed" /\ error' = exc /\ raised_at' = pc

\* ------------------------------------------------------------ framework

\* _download_json(..., fatal): the parsed body; on a failed download it raises
\* when fatal and returns False, which is no dict, when not
DownloadJson(resp, fatal) ==
    [raised |-> ~resp.ok /\ fatal,
     is_dict |-> resp.ok,
     json |-> IF resp.ok THEN resp.json ELSE EmptyDict]

\* _html_search_regex(pattern, webpage, name): the group, RegexNotFoundError without a match
HtmlSearchRegex(found) ==
    [raised |-> found = None, value |-> found]

\* _extract_m3u8_formats / _extract_mpd_formats / _extract_ism_formats with
\* fatal=False: the formats of the manifest, [] when it cannot be resolved
ExtractManifestFormats(manifest) ==
    IF manifest.ok THEN manifest.formats ELSE <<>>

\* get_param(name, default)
GetParam(params, name, default) ==
    IF name \in DOMAIN params THEN params[name] ELSE default

\* ------------------------------------------------------------ subtitles

\* sub_dict.setdefault(key, []).append(item)
SetDefaultAppend(d, key, item) ==
    IF key \in DOMAIN d THEN [d EXCEPT ![key] = Append(@, item)]
    ELSE (key :> <<item>>) @@ d

\* `not track.get('language') or not track.get('url')`: the track is skipped
TrackIsSkipped(track) ==
    ~Truthy(Get(track, "language")) \/ ~Truthy(Get(track, "url"))

\* the flag tested by the presence of the key, not by its value
TrackIsAutomaticByKey(track) == "autoGenerated" \in DOMAIN track

\* `track.get('autoGenerated')`: the track goes to automatic_captions
TrackIsAutomatic(track) == Get(track, "autoGenerated") = Some(TRUE)

\* the loop of _get_all_subtitles over text_tracks, from track i on
RECURSIVE TrackLoop(_, _, _, _)
TrackLoop(text_tracks, i, subtitles, automatic_captions) ==
    IF i > Len(text_tracks)
    THEN [subtitles |-> subtitles, automatic_captions |-> automatic_captions]
    ELSE LET track == text_tracks[i] IN
         IF TrackIsSkipped(track)
         THEN TrackLoop(text_tracks, i + 1, subtitles, automatic_captions)
         ELSE LET item == [ext |-> "vtt", url |-> track.url] IN
              IF TrackIsAutomatic(track)
              THEN TrackLoop(text_tracks, i + 1, subtitles,
                             SetDefaultAppend(automatic_captions, track.language, item))
              ELSE TrackLoop(text_tracks, i + 1,
                             SetDefaultAppend(subtitles, track.language, item),
                             automatic_captions)

\* _get_all_subtitles(api_url, video_id, headers): the request it issues, the
\* exception it ends in ("none" when it returns) and the dict it returns
GetAllSubtitles(api, id, resp) ==
    LET got == DownloadJson(resp, FALSE)
        text_tracks == IF "value" \in DOMAIN got.json THEN got.json.value ELSE <<>>
    IN [requests |-> <<Request("texttracks", api, id)>>,
        error |-> IF got.is_dict THEN "none" ELSE "AttributeError",
        value |-> IF got.is_dict THEN TrackLoop(text_tracks, 1, EmptyDict, EmptyDict)
                  ELSE EmptyDict]

\* the condition without its third disjunct
WantsSubtitlesNoList(params) ==
    \/ GetParam(params, "writesubtitles", FALSE)
    \/ GetParam(params, "writeautomaticsub", FALSE)

\* the condition of extract_all_subtitles; an unset listsubtitles is None,
\* which is as false as False
WantsSubtitles(params) ==
    \/ GetParam(params, "writesubtitles", FALSE)
    \/ GetParam(params, "writeautomaticsub", FALSE)
    \/ GetParam(params, "listsubtitles", FALSE)

\* extract_all_subtitles(api_url, video_id, headers)
ExtractAllSubtitles(params, api, id, resp) ==
    IF WantsSubtitles(params) THEN GetAllSubtitles(api, id, resp)
    ELSE [requests |-> <<>>, error |-> "none", value |-> EmptyDict]

\* ------------------------------------------------------------ _real_extract

\* '<title>Microsoft Stream</title>' in webpage, the check left out
IsAuthenticatedUnchecked(webpage) == TRUE

\* '<title>Microsoft Stream</title>' in webpage
IsAuthenticated(webpage) == webpage.marker

\* the id of the URL kept whatever the API answers
ReconcileIdUrlOnly(data, id) == id

\* video_data.get('id') or video_id
ReconcileId(data, id) == IF Truthy(Get(data, "id")) THEN data.id ELSE id

\* try_get(video_data, lambda x: x['posterImage'][thumbnail_id]['url'], str)
ThumbnailUrl(data, thumbnail_id) ==
    IF /\ "posterImage" \in DOMAIN data
       /\ thumbnail_id \in DOMAIN data.posterImage
       /\ "url" \in DOMAIN data.posterImage[thumbnail_id]
    THEN Some(data.posterImage[thumbnail_id].url)
    ELSE None

\* b64decode(thumb_name + '=' * (-len(thumb_name) % 4)) of the url's basename
DecodeThumbName(thumbnail_url) ==
    LET thumb_name == UrlBasename(thumbnail_url) IN B64Decode(thumb_name \o Padding(thumb_name))

\* the thumbnail entry of one label whose url decodes
Thumb(thumbnail_id, thumbnail_url) ==
    ParseResolution(StrOfBytes(DecodeThumbName(thumbnail_url).bytes))
        @@ [id |-> thumbnail_id, url |-> thumbnail_url]

\* the loop over the four size labels, from label i on: the exception that
\* ends it ("none" when it completes) and the thumbnails
RECURSIVE ThumbLoop(_, _, _)
ThumbLoop(data, i, acc) ==
    IF i > Len(ThumbnailIds) THEN [error |-> "none", thumbnails |-> acc]
    ELSE LET thumbnail_url == ThumbnailUrl(data, ThumbnailIds[i]) IN
         IF thumbnail_url = None THEN ThumbLoop(data, i + 1, acc)
         ELSE IF ~DecodeThumbName(thumbnail_url[1]).ok
         THEN [error |-> DecodeThumbName(thumbnail_url[1]).error, thumbnails |-> acc]
         ELSE ThumbLoop(data, i + 1, Append(acc, Thumb(ThumbnailIds[i], thumbnail_url[1])))

\* a mime type outside the three handed to the HLS resolver
ResolverOfNoDefault(mimeType) ==
    CASE mimeType = MimeDash -> "mpd"
      [] mimeType = MimeIsm -> "ism"
      [] OTHER -> "m3u8"

\* the resolver a mimeType dispatches to, "none" for a type that is skipped
ResolverOf(mimeType) ==
    CASE mimeType = MimeHls -> "m3u8"
      [] mimeType = MimeDash -> "mpd"
      [] mimeType = MimeIsm -> "ism"
      [] OTHER -> "none"

\* {**f, 'language': language}: the video's language over the resolver's
TagLanguageOverride(f, lang) ==
    IF lang = None THEN f
    ELSE [k \in DOMAIN f \cup {"language"} |-> IF k = "language" THEN lang[1] ELSE f[k]]

\* merge_dicts(f, {'language': language})
TagLanguage(f, lang) ==
    MergeDicts(f, IF lang = None THEN EmptyDict ELSE [language |-> lang[1]])

\* [merge_dicts(f, {'language': language}) for f in formats]
TagFormats(fs, lang) == [i \in 1..Len(fs) |-> TagLanguage(fs[i], lang)]

\* the text-track request made with the id of the URL
SubtitlesIdFromUrl(url_id, reconciled_id) == url_id

\* the id the text-track request is made with: video_id as it is at line 114
SubtitlesId(url_id, reconciled_id) == reconciled_id

\* description read by subscript like the title
RequiredKeysWithDescription == {"name", "description"}

\* the keys of video_data the record reads by subscript: video_data['name']
RequiredKeys == {"name"}

\* the dict _real_extract returns
Record(data, id, thumbs, subs, fmts) ==
    [id |-> id,
     title |-> data.name,
     description |-> Get(data, "description"),
     uploader |-> TryGet2(data, "creator", "name"),
     uploader_id |-> TryGetFirst(data, "creator", "mail", "id"),
     thumbnails |-> thumbs,
     timestamp |-> ParseIso8601(Get(data, "created")),
     duration |-> ParseDuration(TryGet2(data, "media", "duration")),
     webpage_url |-> <<"https://web.microsoftstream.com/video/", id>>,
     view_count |-> TryGet2(data, "metrics", "views"),
     like_count |-> TryGet2(data, "metrics", "likes"),
     comment_count |-> TryGet2(data, "metrics", "comments"),
     formats |-> fmts] @@ subs

\* lines 55-58: the page is downloaded and checked for the title marker
DownloadWebpage ==
    /\ pc = "webpage"
    /\ requests' = Append(requests, Request("webpage", "url", video_id))
    /\ IF ~env.page.ok THEN Raise("ExtractorError")
       ELSE IF ~IsAuthenticated(env.page) THEN Raise("LoginRequiredError")
       ELSE pc' = "credentials" /\ error' = error /\ raised_at' = raised_at
    /\ UNCHANGED <<env, access_token, api_url, video_data, video_id, language,
                   thumbnails, formats, playlist_index, info>>

\* lines 60-63: the token and the API url are searched in the page
ScrapeCredentials ==
    /\ pc = "credentials"
    /\ IF HtmlSearchRegex(env.page.token).raised \/ HtmlSearchRegex(env.page.api).raised
       THEN Raise("RegexNotFoundError") /\ UNCHANGED <<access_token, api_url>>
       ELSE /\ access_token' = HtmlSearchRegex(env.page.token).value
            /\ api_url' = HtmlSearchRegex(env.page.api).value
            /\ pc' = "video_data" /\ error' = error /\ raised_at' = raised_at
    /\ UNCHANGED <<env, requests, video_data, video_id, language, thumbnails,
                   formats, playlist_index, info>>

\* lines 65-72: the video record is downloaded, id and language are taken from it
DownloadVideoData ==
    /\ pc = "video_data"
    /\ requests' = Append(requests, Request("video", api_url[1], video_id))
    /\ IF DownloadJson(env.video, TRUE).raised
       THEN Raise("ExtractorError") /\ UNCHANGED <<video_data, video_id, language>>
       ELSE /\ video_data' = DownloadJson(env.video, TRUE).json
            /\ video_id' = ReconcileId(video_data', video_id)
            /\ language' = Get(video_data', "language")
            /\ pc' = "thumbnails" /\ error' = error /\ raised_at' = raised_at
    /\ UNCHANGED <<env, access_token, api_url, thumbnails, formats, playlist_index, info>>

\* lines 74-86: the thumbnails of the four size labels
DeriveThumbnails ==
    /\ pc = "thumbnails"
    /\ LET r == ThumbLoop(video_data, 1, <<>>) IN
       IF r.error # "none" THEN Raise(r.error) /\ UNCHANGED thumbnails
       ELSE thumbnails' = r.thumbnails /\ pc' = "formats" /\ error' = error /\ raised_at' = raised_at
    /\ UNCHANGED <<env, requests, access_token, api_url, video_data, video_id,
                   language, formats, playlist_index, info>>

\* lines 88-102: one turn of the loop over video_data['playbackUrls']
ResolvePlaylist ==
    /\ pc = "formats"
    /\ "playbackUrls" \in DOMAIN video_data => playlist_index <= Len(video_data.playbackUrls)
    /\ IF "playbackUrls" \notin DOMAIN video_data
       THEN Raise("KeyError") /\ UNCHANGED <<requests, formats, playlist_index>>
       ELSE LET playlist == video_data.playbackUrls[playlist_index] IN
            IF "mimeType" \notin DOMAIN playlist
            THEN Raise("KeyError") /\ UNCHANGED <<requests, formats, playlist_index>>
            ELSE IF ResolverOf(playlist.mimeType) = "none"
            THEN /\ playlist_index' = playlist_index + 1
                 /\ UNCHANGED <<pc, error, raised_at, requests, formats>>
            ELSE IF "playbackUrl" \notin DOMAIN playlist
            THEN Raise("KeyError") /\ UNCHANGED <<requests, formats, playlist_index>>
            ELSE /\ requests' = Append(requests,
                        Request(ResolverOf(playlist.mimeType), playlist.playbackUrl, video_id))
                 /\ formats' = formats \o ExtractManifestFormats(env.manifests[playlist.playbackUrl])
                 /\ playlist_index' = playlist_index + 1
                 /\ UNCHANGED <<pc, error, raised_at>>
    /\ UNCHANGED <<env, access_token, api_url, video_data, video_id, language,
                   thumbnails, info>>

\* lines 103-104: past the loop, every format is tagged and the list sorted
TagAndSortFormats ==
    /\ pc = "formats"
    /\ "playbackUrls" \in DOMAIN video_data
    /\ playlist_index > Len(video_data.playbackUrls)
    /\ formats' = SortFormats(TagFormats(formats, language))
    /\ pc' = "record"
    /\ UNCHANGED <<env, error, raised_at, requests, access_token, api_url, video_data, video_id,
                   language, thumbnails, playlist_index, info>>

\* lines 106-122: the record is built; its title is read before the subtitles are extracted
AssembleRecord ==
    /\ pc = "record"
    /\ IF ~(RequiredKeys \subseteq DOMAIN video_data)
       THEN Raise("KeyError") /\ UNCHANGED <<requests, info>>
       ELSE LET subs == ExtractAllSubtitles(env.params, api_url[1],
                                            SubtitlesId(UrlId, video_id), env.tracks) IN
            /\ requests' = requests \o subs.requests
            /\ IF subs.error # "none" THEN Raise(subs.error) /\ UNCHANGED info
               ELSE /\ info' = Record(video_data, video_id, thumbnails, subs.value, formats)
                    /\ pc' = "done" /\ error' = error /\ raised_at' = raised_at
    /\ UNCHANGED <<env, access_token, api_url, video_data, video_id, language,
                   thumbnails, formats, playlist_index>>

Next ==
    \/ DownloadWebpage
    \/ ScrapeCredentials
    \/ DownloadVideoData
    \/ DeriveThumbnails
    \/ ResolvePlaylist
    \/ TagAndSortFormats
    \/ AssembleRecord

Spec == Init /\ [][Next]_vars

\* ------------------------------------------------------------ properties

Returned == pc = "done"
Failed == pc = "failed"

\* the video record has been received
VideoLoaded == env.video.ok /\ \E i \in 1..Len(requests) : requests[i].kind = "video"

RequestsOfKind(kinds) == {i \in 1..Len(requests) : requests[i].kind \in kinds}
TextTrackRequested == RequestsOfKind({"texttracks"}) # {}

\* at least one of the three options is true
AnyOptionTrue == \E n \in ParamNames : n \in DOMAIN env.params /\ env.params[n]

\* (C1) When the text-track download is performed and fails, the call still
\* returns a record, whose subtitles and automatic_captions are both empty.
C1_FailedTextTracksStillReturn ==
    (TextTrackRequested /\ ~env.tracks.ok) =>
        /\ Returned
        /\ info.subtitles = EmptyDict
        /\ info.automatic_captions = EmptyDict

\* the formats the manifests hold, and the one a returned format stems from
AllManifestFormats ==
    UNION {{ManifestFormats[u][j] : j \in 1..Len(ManifestFormats[u])} : u \in ManifestUrls}
SourceFormat(g) == CHOOSE f \in AllManifestFormats : f.format_id = g.format_id

\* (C2, as claimed) Whichever single field the video record omits, a call
\* that otherwise completes still completes.
C2_AnyFieldMayBeOmitted ==
    \A k \in VideoKeys :
        (env.video.json = Restrict(BaseVideo, VideoKeys \ {k}) /\ env.tracks.ok) => ~Failed

\* some entry of playbackUrls lacks mimeType, or playbackUrl under a recognised type
MalformedEntry(pl) ==
    \E i \in 1..Len(pl) :
        \/ "mimeType" \notin DOMAIN pl[i]
        \/ pl[i].mimeType \in {MimeHls, MimeDash, MimeIsm} /\ "playbackUrl" \notin DOMAIN pl[i]

\* some size label carries a url whose final segment b64decode refuses
UndecodableThumb(data) ==
    \E j \in 1..Len(ThumbnailIds) :
        /\ ThumbnailUrl(data, ThumbnailIds[j]) # None
        /\ ~DecodeThumbName(ThumbnailUrl(data, ThumbnailIds[j])[1]).ok

\* (C2, amended) Omitting description, creator, posterImage, media.duration,
\* created, metrics, id or language never fails the call and leaves the output
\* field null (thumbnails empty, id the URL's, formats without the video's
\* language); a call fails after the video record arrived only on a missing
\* name or playbackUrls (KeyError), a malformed playlist entry, a thumbnail
\* name that does not decode, or a failed text-track download; without name or
\* playbackUrls no record is returned.
C2_OptionalFieldsMayBeOmitted ==
    /\ (Failed /\ VideoLoaded) =>
          \/ /\ error = "KeyError"
             /\ \/ "name" \notin DOMAIN video_data
                \/ "playbackUrls" \notin DOMAIN video_data
                \/ MalformedEntry(video_data.playbackUrls)
          \/ error \in {"binascii.Error", "ValueError"} /\ UndecodableThumb(video_data)
          \/ error = "AttributeError" /\ ~env.tracks.ok /\ AnyOptionTrue
    /\ (Failed /\ raised_at = "formats" /\ "playbackUrls" \notin DOMAIN video_data)
          => error = "KeyError"
    /\ (Failed /\ raised_at = "record" /\ "name" \notin DOMAIN video_data)
          => error = "KeyError"
    /\ Returned =>
          /\ {"name", "playbackUrls"} \subseteq DOMAIN env.video.json
          /\ info.title = env.video.json.name
          /\ "description" \notin DOMAIN env.video.json => info.description = None
          /\ "creator" \notin DOMAIN env.video.json =>
                info.uploader = None /\ info.uploader_id = None
          /\ "posterImage" \notin DOMAIN env.video.json => info.thumbnails = <<>>
          /\ TryGet2(env.video.json, "media", "duration") = None => info.duration = None
          /\ "created" \notin DOMAIN env.video.json => info.timestamp = None
          /\ "metrics" \notin DOMAIN env.video.json =>
                info.view_count = None /\ info.like_count = None /\ info.comment_count = None
          /\ "id" \notin DOMAIN env.video.json => info.id = UrlId
          /\ "language" \notin DOMAIN env.video.json =>
                \A i \in 1..Len(info.formats) : info.formats[i] = SourceFormat(info.formats[i])

\* a record returned from a video record that carries name and playbackUrls only
C2_Witness ==
    /\ Returned
    /\ DOMAIN env.video.json = {"name", "playbackUrls"}
    /\ info.description = None /\ info.thumbnails = <<>> /\ info.id = UrlId

\* (C3) A page without the title marker ends the call in LoginRequiredError
\* whatever else it holds: no credential is taken from it and no request
\* follows the page download.
C3_NoMarkerIsLoginRequired ==
    (env.page.ok /\ ~env.page.marker /\ pc # "webpage") =>
        /\ Failed
        /\ error = "LoginRequiredError"
        /\ access_token = None /\ api_url = None
        /\ RequestsOfKind({"video", "m3u8", "mpd", "ism", "texttracks"}) = {}

\* the login failure on a page that holds both credentials
C3_Witness ==
    /\ Failed /\ error = "LoginRequiredError"
    /\ ~env.page.marker /\ env.page.token # None /\ env.page.api # None

\* (C4) A thumbnail url whose final segment is absent, does not decode or
\* decodes to no resolution never aborts the call: the record is returned
\* and the entry carries id and url only.
C4_ThumbnailNeverAborts ==
    /\ Failed => error \notin {"binascii.Error", "ValueError"}
    /\ Returned =>
          \A j \in 1..Len(ThumbnailIds) :
              ThumbnailUrl(video_data, ThumbnailIds[j]) # None =>
                  \E t \in 1..Len(info.thumbnails) :
                      /\ info.thumbnails[t].id = ThumbnailIds[j]
                      /\ info.thumbnails[t].url = ThumbnailUrl(video_data, ThumbnailIds[j])[1]
                      /\ ParseResolution(StrOfBytes(
                            DecodeThumbName(info.thumbnails[t].url).bytes)) = EmptyDict
                            => DOMAIN info.thumbnails[t] = {"id", "url"}

\* (C5, as claimed) Every returned format has the video's language, whatever
\* the resolver had set (stated for a video whose language the API gives).
C5_EveryFormatHasVideoLanguage ==
    (Returned /\ language # None) =>
        \A i \in 1..Len(info.formats) : Get(info.formats[i], "language") = language

\* (C5, amended) A returned format for which the resolver set a non-empty
\* language keeps that language; one for which the resolver set none, or an
\* empty one, has the video's language when the API gives one and is left as
\* the resolver made it when the API gives none.
C5_UnsetLanguageIsTagged ==
    Returned =>
        \A i \in 1..Len(info.formats) :
            LET g == info.formats[i]
                f == SourceFormat(g)
                given == Get(env.video.json, "language")
            IN IF "language" \in DOMAIN f /\ f.language # ""
               THEN g = f
               ELSE IF given # None
               THEN g = [k \in DOMAIN f \cup {"language"} |->
                            IF k = "language" THEN given[1] ELSE f[k]]
               ELSE g = f

\* a record with a format that kept the resolver's language and one that got the video's
C5_Witness ==
    /\ Returned
    /\ language = Some("en")
    /\ \E i, j \in 1..Len(info.formats) :
          /\ info.formats[i].language = "de"
          /\ info.formats[j].language = "en" /\ "language" \notin DOMAIN SourceFormat(info.formats[j])

\* playbackUrls is present and each entry has the keys its type needs
WellFormedPlaylists ==
    "playbackUrls" \in DOMAIN env.video.json /\ ~MalformedEntry(env.video.json.playbackUrls)

\* entry e is of a recognised type and its manifest resolves
Contributes(e) ==
    e.mimeType \in {MimeHls, MimeDash, MimeIsm} /\ env.manifests[e.playbackUrl].ok

\* how many formats named id the contributing entries of pl produce
RECURSIVE ExpectedCount(_, _)
ExpectedCount(pl, id) ==
    IF pl = <<>> THEN 0
    ELSE ExpectedCount(Tail(pl), id)
         + (IF Contributes(Head(pl))
            THEN Cardinality({j \in 1..Len(ManifestFormats[Head(pl).playbackUrl]) :
                                ManifestFormats[Head(pl).playbackUrl][j].format_id = id})
            ELSE 0)

\* how many formats named id the sequence fs holds
CountIn(fs, id) == Cardinality({i \in 1..Len(fs) : fs[i].format_id = id})

\* (C6) Over a playbackUrls list whose entries carry their keys, the returned
\* formats are exactly those of the entries of a recognised type whose
\* manifest resolved; no entry raises, and every recognised entry is resolved
\* whatever became of the entries before it.
C6_FormatsAreThoseResolved ==
    (WellFormedPlaylists /\ VideoLoaded) =>
        /\ error = "KeyError" => "name" \notin DOMAIN env.video.json
        /\ pc \in {"record", "done"} =>
              LET pl == env.video.json.playbackUrls IN
              /\ \A f \in AllManifestFormats :
                    CountIn(formats, f.format_id) = ExpectedCount(pl, f.format_id)
              /\ \A i \in 1..Len(formats) : formats[i].format_id \in
                    {f.format_id : f \in AllManifestFormats}
              /\ Cardinality(RequestsOfKind({"m3u8", "mpd", "ism"})) =
                    Cardinality({i \in 1..Len(pl) :
                                   pl[i].mimeType \in {MimeHls, MimeDash, MimeIsm}})
        /\ Returned => info.formats = formats

\* a record whose first entry contributed nothing and whose second did
C6_Witness ==
    /\ Returned
    /\ Len(env.video.json.playbackUrls) = 2
    /\ ~MalformedEntry(env.video.json.playbackUrls)
    /\ ~Contributes(env.video.json.playbackUrls[1])
    /\ env.video.json.playbackUrls[2].mimeType = MimeDash
    /\ Contributes(env.video.json.playbackUrls[2])
    /\ info.formats # <<>>

\* track t has a language and a url
TrackIsComplete(t) ==
    /\ "language" \in DOMAIN t /\ t.language # ""
    /\ "url" \in DOMAIN t /\ t.url # ""

\* track t is flagged as generated
TrackIsFlagged(t) == "autoGenerated" \in DOMAIN t /\ t.autoGenerated

\* the descriptors of the complete tracks of ts with language l and flag auto, in order
RECURSIVE DescriptorsOf(_, _, _)
DescriptorsOf(ts, l, auto) ==
    IF ts = <<>> THEN <<>>
    ELSE (IF TrackIsComplete(Head(ts)) /\ Head(ts).language = l
             /\ (TrackIsFlagged(Head(ts)) <=> auto)
          THEN <<[ext |-> "vtt", url |-> Head(ts).url]>> ELSE <<>>)
         \o DescriptorsOf(Tail(ts), l, auto)

\* the languages of the complete tracks of ts with flag auto
LanguagesOf(ts, auto) ==
    {ts[i].language : i \in {j \in 1..Len(ts) :
                               TrackIsComplete(ts[j]) /\ (TrackIsFlagged(ts[j]) <=> auto)}}

\* the text tracks the API answered with
GivenTracks ==
    IF "value" \in DOMAIN env.tracks.json THEN env.tracks.json.value ELSE <<>>

\* (C7) Tracks without language or url are in neither map; every other
\* track is once, as {ext: vtt, url}, under its language, in
\* automatic_captions when flagged autoGenerated and in subtitles otherwise,
\* the tracks of one language in the order of the API's list.
C7_TracksArePartitioned ==
    (Returned /\ TextTrackRequested) =>
        /\ DOMAIN info.subtitles = LanguagesOf(GivenTracks, FALSE)
        /\ DOMAIN info.automatic_captions = LanguagesOf(GivenTracks, TRUE)
        /\ \A l \in DOMAIN info.subtitles :
              info.subtitles[l] = DescriptorsOf(GivenTracks, l, FALSE)
        /\ \A l \in DOMAIN info.automatic_captions :
              info.automatic_captions[l] = DescriptorsOf(GivenTracks, l, TRUE)

\* a record with two subtitles of one language, in the order of the list, the
\* second of them with an explicit false flag
C7_Witness ==
    /\ Returned /\ TextTrackRequested
    /\ Len(GivenTracks) = 2
    /\ "en" \in DOMAIN info.subtitles
    /\ info.subtitles["en"] = <<[ext |-> "vtt", url |-> "u2"], [ext |-> "vtt", url |-> "u1"]>>
    /\ "autoGenerated" \notin DOMAIN GivenTracks[1]
    /\ Get(GivenTracks[2], "autoGenerated") = Some(FALSE)

\* the call got to the building of the record (lines 106-122): it returned, or
\* an exception left it from there
ReachedRecord == Returned \/ (Failed /\ raised_at = "record")

\* (C8, as claimed) A call that reaches the building of the record has issued
\* the text-track request exactly when one of the three options is true.
C8_RequestIffOptionOnceAssembling ==
    ReachedRecord => (TextTrackRequested <=> AnyOptionTrue)

\* (C8, amended) The text-track request is issued only when one of the three
\* options is true, and at most once; a call that gets to the subtitle call
\* of line 114 (it returns, or dies in that call) has issued it exactly when
\* one of them is true; a call that reaches the building of the record and
\* fails on video_data['name'] at line 108 has issued none, whatever the options.
C8_TextTracksIffOption ==
    /\ TextTrackRequested => AnyOptionTrue
    /\ Cardinality(RequestsOfKind({"texttracks"})) <= 1
    /\ (Returned \/ (Failed /\ raised_at = "record" /\ error # "KeyError"))
          => (TextTrackRequested <=> AnyOptionTrue)
    /\ (Failed /\ raised_at = "record" /\ error = "KeyError")
          => ("name" \notin DOMAIN video_data /\ ~TextTrackRequested)
    /\ (Failed /\ raised_at # "record") => ~TextTrackRequested

\* a record for which listsubtitles alone asked for the request
C8_Witness ==
    /\ Returned /\ TextTrackRequested
    /\ env.params = [listsubtitles |-> TRUE]

\* (C9) A returned record has the API's id when the API gives a (non-empty)
\* one, and the id of the URL when the API gives none.
C9_IdIsApiOrUrl ==
    Returned =>
        /\ "id" \in DOMAIN info /\ info.id # ""
        /\ ("id" \in DOMAIN env.video.json /\ env.video.json.id # "") =>
              info.id = env.video.json.id
        /\ "id" \notin DOMAIN env.video.json => info.id = UrlId

\* a record returned with the API's id, which is not the URL's
C9_Witness ==
    /\ Returned
    /\ Get(env.video.json, "id") = Some(ApiId)
    /\ info.id = ApiId /\ ApiId # UrlId

\* (C10, as claimed) Every API request, for the video record or for the text
\* tracks, is made with the id of the URL.
C10_EveryApiRequestUsesUrlId ==
    \A i \in RequestsOfKind({"video", "texttracks"}) : requests[i].id = UrlId

\* (C10, amended) The video request is made with the id of the URL; the
\* text-track request is made with the API's id when the video record gave a
\* non-empty one, and with the id of the URL otherwise.
C10_TextTracksUseReconciledId ==
    /\ \A i \in RequestsOfKind({"video"}) : requests[i].id = UrlId
    /\ \A i \in RequestsOfKind({"texttracks"}) :
          requests[i].id =
              IF "id" \in DOMAIN env.video.json /\ env.video.json.id # ""
              THEN env.video.json.id ELSE UrlId

\* a text-track request made with the API's id, which is not the URL's
C10_Witness ==
    \E i \in RequestsOfKind({"texttracks"}) :
        requests[i].id = ApiId /\ env.video.json.id = ApiId /\ ApiId # UrlId

====
